---- MODULE Spec2Model ----
(***************************************************************************)
(* Model of the flat JSON core of json-editor: JSONParser (parse,          *)
(* change_depth, change_depth_array, as_array) of src/parser/mod.rs and    *)
(* the ArrayTable state that drives it (src/array_table.rs).               *)
(*                                                                         *)
(* Text is a sequence of one-character strings.  A JSON document is a      *)
(* text in which every token is one character, so the lexer is the         *)
(* identity on characters; pointers ("/0/a") are texts too.                *)
(* Option<T> is a sequence of length 0 (None) or 1 (Some).                 *)
(***************************************************************************)
EXTENDS Integers, Sequences, FiniteSets, TLC

\* ------------------------------------------------------------ bounds
\* Largest max_depth a caller asks for.
MaxDepth == 3
\* Largest number of elements of a root array document.
MaxRows == 2
\* Number of elements of the long root array documents: with more than
\* ten, the text of one index starts with the text of another.
WideRows == 11

\* ------------------------------------------------------------ text
None == <<>>
Some(x) == <<x>>

Digits == <<"0", "1", "2", "3", "4", "5", "6", "7", "8", "9">>

\* usize::to_string
RECURSIVE to_string(_)
to_string(i) ==
    IF i < 10 THEN <<Digits[i + 1]>>
    ELSE to_string(i \div 10) \o <<Digits[(i % 10) + 1]>>

\* str::starts_with
StartsWith(s, p) == Len(p) <= Len(s) /\ SubSeq(s, 1, Len(p)) = p

\* str::contains for a one-character needle
Contains(s, c) == \E n \in 1..Len(s) : s[n] = c

\* ------------------------------------------------------------ data
\* PointerKey together with its Option<String> value: one entry of a
\* FlatJsonValue.
Entry(pointer, value_type, depth, index, value) ==
    [pointer |-> pointer, value_type |-> value_type, depth |-> depth,
     index |-> index, value |-> value]

\* PointerKey::from_pointer: index 0.
from_pointer(pointer, value_type, depth, value) ==
    Entry(pointer, value_type, depth, 0, value)

\* ParseOptions::default()
DefaultOptions ==
    [parse_array |-> TRUE, max_depth |-> 10, start_parse_at |-> None,
     prefix |-> None]

Ok(v) == [kind |-> "Ok", val |-> v]
Err(msg) == [kind |-> "Err", val |-> msg]
\* A panic (todo!, unwrap on Err, arithmetic overflow with overflow checks).
Panic(msg) == [kind |-> "Panic", val |-> msg]

\* ------------------------------------------------------------ parser
\* Parser::parse and the lexer are not among the source files; they are
\* modelled from the specification (sections 3, 4.1, 4.2 and the examples
\* of section 8).
OpenTok == {"{", "["}
CloseTok == {"}", "]"}
NumberTok == {"1", "2", "3"}
StringTok == {"a", "b", "c", "d", "x", "#"}

\* Index of the bracket closing the one at p (0: none): the raw span a
\* deferred container is recorded with, found by the lexer without parsing
\* what is inside.
RECURSIVE ScanEnd(_, _, _)
ScanEnd(t, p, level) ==
    IF p > Len(t) THEN 0
    ELSE LET l2 == level + (IF t[p] \in OpenTok THEN 1
                            ELSE IF t[p] \in CloseTok THEN -1 ELSE 0)
         IN IF l2 = 0 THEN p ELSE ScanEnd(t, p + 1, l2)

PFail == [ok |-> FALSE, json |-> <<>>, p |-> 0, n |-> 0]
POk(json, p) == [ok |-> TRUE, json |-> json, p |-> p, n |-> 0]

\* The entries `front` followed by those of the parse r.
Then(front, r) == IF r.ok THEN [r EXCEPT !.json = front \o r.json] ELSE r

RECURSIVE ParseValue(_, _, _, _, _)
RECURSIVE ParseMembers(_, _, _, _, _)
RECURSIVE ParseElements(_, _, _, _, _, _, _)

\* The container starting at t[p] and closed at t[e] (0: never), under
\* pointer `route` at `depth`: it is recorded with its raw span, and
\* descended into only while its depth is below max_depth.
ParseContainer(t, p, e, route, depth, opt) ==
    IF e = 0 THEN PFail
    ELSE IF depth < opt.max_depth THEN
        Then(<<from_pointer(route, IF t[p] = "{" THEN "Object" ELSE "Array",
                            depth, Some(SubSeq(t, p, e)))>>,
             IF t[p] = "{"
             THEN ParseMembers(t, p + 1, route, depth + 1, opt)
             ELSE ParseElements(t, p + 1, route, 0, depth + 1, opt, FALSE))
    ELSE POk(<<from_pointer(route, IF t[p] = "{" THEN "Object" ELSE "Array",
                            depth, Some(SubSeq(t, p, e)))>>, e + 1)

\* One value starting at t[p], recorded under pointer `route` at `depth`.
\* r.p is the position after the value.
ParseValue(t, p, route, depth, opt) ==
    IF p > Len(t) THEN PFail
    ELSE IF t[p] \in OpenTok
    THEN ParseContainer(t, p, ScanEnd(t, p, 0), route, depth, opt)
    ELSE IF t[p] \in NumberTok THEN
        POk(<<from_pointer(route, "Number", depth, Some(<<t[p]>>))>>, p + 1)
    ELSE IF t[p] \in StringTok THEN
        POk(<<from_pointer(route, "String", depth, Some(<<t[p]>>))>>, p + 1)
    ELSE IF t[p] = "n" THEN
        POk(<<from_pointer(route, "Null", depth, None)>>, p + 1)
    ELSE PFail

\* After the member parsed as v: the end of the object, or "," and the
\* next members.
NextMember(v, t, route, depth, opt) ==
    IF ~v.ok \/ v.p > Len(t) THEN PFail
    ELSE IF t[v.p] = "}" THEN POk(v.json, v.p + 1)
    ELSE IF t[v.p] # "," \/ v.p + 1 > Len(t) \/ t[v.p + 1] = "}" THEN PFail
    ELSE Then(v.json, ParseMembers(t, v.p + 1, route, depth, opt))

\* The members of an object whose "{" has been consumed, up to and
\* including its "}", recorded at `depth`.  r.p is the position after
\* the "}".
ParseMembers(t, p, route, depth, opt) ==
    IF p > Len(t) THEN PFail
    ELSE IF t[p] = "}" THEN POk(<<>>, p + 1)
    ELSE IF t[p] \notin StringTok \/ p + 1 > Len(t) \/ t[p + 1] # ":" THEN PFail
    ELSE NextMember(ParseValue(t, p + 2, route \o <<"/", t[p]>>, depth, opt),
                    t, route, depth, opt)

\* After element i parsed as v: the end of the array, or "," and the next
\* elements.
NextElement(v, t, route, i, depth, opt, rows) ==
    IF ~v.ok \/ v.p > Len(t) THEN PFail
    ELSE IF t[v.p] = "]" THEN [POk(v.json, v.p + 1) EXCEPT !.n = i + 1]
    ELSE IF t[v.p] # "," \/ v.p + 1 > Len(t) \/ t[v.p + 1] = "]" THEN PFail
    ELSE Then(v.json, ParseElements(t, v.p + 1, route, i + 1, depth, opt, rows))

\* The elements of an array whose "[" has been consumed, element i first,
\* recorded at `depth`.  With `rows` (the document's root array) an
\* object element contributes its members only and no entry of its own.
\* r.p is the position after the "]"; r.n the number of elements.
ParseElements(t, p, route, i, depth, opt, rows) ==
    IF p > Len(t) THEN PFail
    ELSE IF t[p] = "]" THEN [POk(<<>>, p + 1) EXCEPT !.n = i]
    ELSE NextElement(
             IF rows /\ t[p] = "{"
             THEN (IF ScanEnd(t, p, 0) = 0 THEN PFail
                   ELSE ParseMembers(t, p + 1, route \o <<"/">> \o to_string(i),
                                     depth, opt))
             ELSE ParseValue(t, p, route \o <<"/">> \o to_string(i), depth, opt),
             t, route, i, depth, opt, rows)

\* Number of open brackets at position p of a text: the brackets opened
\* up to p less those closed before p.
Nesting(t, p) ==
    Cardinality({q \in 1..p : t[q] \in OpenTok})
        - Cardinality({q \in 1..(p - 1) : t[q] \in CloseTok})

\* Deepest nesting of brackets in a text.
MaxNesting(t) ==
    LET levels == {Nesting(t, p) : p \in 1..Len(t)}
    IN IF levels = {} THEN 0 ELSE CHOOSE l \in levels : \A m \in levels : m <= l

ParseResult(json, mjd, pmd, rvt, spa, pp, ral) ==
    [json |-> json, max_json_depth |-> mjd, parsing_max_depth |-> pmd,
     root_value_type |-> rvt, started_parsing_at |-> spa,
     parsing_prefix |-> pp, root_array_len |-> ral]

\* The result of parsing the text t whose root container, of type rvt,
\* was parsed as r.
ParsedRoot(r, rvt, t, opt, depth) ==
    IF r.ok /\ r.p = Len(t) + 1
    THEN Ok(ParseResult(r.json,
                        depth + MaxNesting(t)
                              - (IF rvt = "Object" THEN 1 ELSE 2),
                        opt.max_depth, rvt, opt.start_parse_at, opt.prefix,
                        IF rvt = "Array" /\ opt.parse_array THEN r.n ELSE 0))
    ELSE Err("structural error")

\* Parser::parse(&options, depth) on the text t.  The root container has
\* no entry; its members are recorded at `depth`, under options.prefix.
Parser_parse(t, opt, depth) ==
    IF t = <<>> THEN Err("empty input")
    ELSE IF t[1] = "{" THEN
        ParsedRoot(ParseMembers(t, 2, IF opt.prefix = None THEN <<>> ELSE opt.prefix[1],
                                depth, opt),
                   "Object", t, opt, depth)
    ELSE IF t[1] = "[" THEN
        ParsedRoot(ParseElements(t, 2, IF opt.prefix = None THEN <<>> ELSE opt.prefix[1],
                                 0, depth, opt, TRUE),
                   "Array", t, opt, depth)
    ELSE Err("structural error")

\* JSONParser::parse: the document's members are at depth 1.
JSONParser_parse(t, opt) == Parser_parse(t, opt, 1)

\* ------------------------------------------------------------ columns
\* array_table.rs: struct Column
Column(name, depth, value_type, seen_count, order) ==
    [name |-> name, depth |-> depth, value_type |-> value_type,
     seen_count |-> seen_count, order |-> order]

\* Column::new
Column_new(name, value_type) == Column(name, 0, value_type, 0, 0)

\* usize::cmp
cmp(x, y) == IF x < y THEN "Less" ELSE IF x = y THEN "Equal" ELSE "Greater"

\* Mutant of Column_cmp: the seen counts are compared the other way round.
Column_cmp_count_ascending(self, other) ==
    IF cmp(self.seen_count, other.seen_count) = "Equal"
    THEN cmp(other.order, self.order)
    ELSE cmp(self.seen_count, other.seen_count)

\* Mutant of Column_cmp: ties are broken by the smaller order first.
Column_cmp_order_ascending(self, other) ==
    IF cmp(other.seen_count, self.seen_count) = "Equal"
    THEN cmp(self.order, other.order)
    ELSE cmp(other.seen_count, self.seen_count)

\* impl Ord for Column: self.cmp(other)
Column_cmp(self, other) ==
    IF cmp(other.seen_count, self.seen_count) = "Equal"
    THEN cmp(other.order, self.order)
    ELSE cmp(other.seen_count, self.seen_count)

\* Vec<Column>::sort(): the stable sort by Column_cmp, as insertions from
\* the left: x goes after the elements that are not greater than it.
SortInsert(s, x) ==
    LET k == Cardinality({n \in 1..Len(s) : Column_cmp(s[n], x) # "Greater"})
    IN SubSeq(s, 1, k) \o <<x>> \o SubSeq(s, k + 1, Len(s))

RECURSIVE sort(_)
sort(v) ==
    IF v = <<>> THEN <<>>
    ELSE SortInsert(sort(SubSeq(v, 1, Len(v) - 1)), v[Len(v)])

\* Vec::reverse
RECURSIVE reverse(_)
reverse(v) ==
    IF v = <<>> THEN <<>> ELSE Append(reverse(Tail(v)), Head(v))

\* unique_keys.iter_mut().find(|c| c.eq(&&column)): Column's eq compares
\* the names.  The position of the first match, 0 for none.
FindColumn(unique_keys, name) ==
    LET S == {n \in 1..Len(unique_keys) : unique_keys[n].name = name}
    IN IF S = {} THEN 0 ELSE CHOOSE n \in S : \A m \in S : n <= m

\* The prefix of the pointers of array element i: started_parsing_at,
\* else parsing_prefix, else nothing, then "/" and the index.
RowPrefix(prev, i) ==
    (IF prev.started_parsing_at # None THEN prev.started_parsing_at[1]
     ELSE IF prev.parsing_prefix # None THEN prev.parsing_prefix[1]
     ELSE <<>>) \o <<"/">> \o to_string(i)

\* ------------------------------------------------------------ change_depth
\* Mutant of IsExpand: an equal depth expands too.
IsExpand_or_equal(prev, opt) == prev.parsing_max_depth <= opt.max_depth

\* mod.rs:264: the expand branch is taken.
IsExpand(prev, opt) == prev.parsing_max_depth < opt.max_depth

\* mod.rs:295: the collapse branch is taken.
IsCollapse(prev, opt) == prev.parsing_max_depth > opt.max_depth

\* mod.rs:268: matches!(k.value_type, ValueType::Object)
IsObject(k) == k.value_type = "Object"

\* Mutant of AtBoundary: a deeper entry is at the boundary too.
AtBoundary_or_deeper(k, prev) == k.depth >= prev.parsing_max_depth % 256

\* mod.rs:271: k.depth == previous_parse_result.parsing_max_depth as u8
AtBoundary(k, prev) == k.depth = prev.parsing_max_depth % 256

\* Mutant of Spliced: the expanded entry itself is not pushed.
Spliced_children_only(k, children) == children

\* mod.rs:273-278: what an expanded entry contributes.
Spliced(k, children) == <<k>> \o children

\* mod.rs:277-278: the sub-parse's children follow the entry, or its
\* error ends the call.
Expanded(k, res) ==
    IF res.kind = "Ok" THEN Ok(Spliced(k, res.val.json)) ELSE res

\* mod.rs:268-284: what the entry k contributes to the new flat structure.
change_depth_entry(k, prev, opt) ==
    IF ~IsObject(k) THEN Ok(<<k>>)
    ELSE IF AtBoundary(k, prev) THEN
        IF k.value # None
        THEN Expanded(k, Parser_parse(k.value[1],
                                      [opt EXCEPT !.prefix = Some(k.pointer)],
                                      k.depth + 1))
        ELSE Ok(<<>>)
    ELSE Ok(<<k>>)

\* The entries `front` followed by those of the result `rest`.
Extended(front, rest) ==
    IF rest.kind = "Ok" THEN Ok(front \o rest.val) ELSE rest

RECURSIVE change_depth_entries(_, _, _, _)

\* mod.rs:267-285: the loop goes on after entry n, which contributed `here`.
change_depth_next(here, json, n, prev, opt) ==
    IF here.kind # "Ok" THEN here
    ELSE Extended(here.val, change_depth_entries(json, n + 1, prev, opt))

\* mod.rs:267-285: the for-loop of change_depth from entry n on: the new
\* flat structure, or the sub-parse's error.
change_depth_entries(json, n, prev, opt) ==
    IF n > Len(json) THEN Ok(<<>>)
    ELSE change_depth_next(change_depth_entry(json[n], prev, opt),
                           json, n, prev, opt)

\* Mutant of change_depth_expanded: parsing_max_depth is left as it was.
change_depth_expanded_same_depth(r, prev, opt) ==
    IF r.kind = "Ok" THEN Ok([prev EXCEPT !.json = r.val]) ELSE r

\* mod.rs:286-294: the result of the expand branch.
change_depth_expanded(r, prev, opt) ==
    IF r.kind = "Ok"
    THEN Ok(ParseResult(r.val, prev.max_json_depth, opt.max_depth,
                        prev.root_value_type, prev.started_parsing_at,
                        prev.parsing_prefix, prev.root_array_len))
    ELSE r

\* JSONParser::change_depth
change_depth(prev, opt) ==
    IF IsExpand(prev, opt)
    THEN change_depth_expanded(change_depth_entries(prev.json, 1, prev, opt),
                               prev, opt)
    ELSE IF IsCollapse(prev, opt) THEN Panic("not yet implemented")
    ELSE Ok(prev)

\* ------------------------------------------------------------ as_array
\* TLC's integers have 32 bits: UsizeWrap stands for 2^64, the modulus of
\* usize arithmetic without overflow checks.
UsizeWrap == 2147483647

\* Mutant of as_array_column: the count starts at 0.
as_array_column_from_zero(key, k, unique_keys) ==
    Column(key, k.depth, k.value_type, 0, Len(unique_keys))

\* Mutant of match_prefix: every entry is taken for the element's.
match_prefix_any(k, prefix) == TRUE

\* mod.rs:318-330: the pointer starts with the prefix of the element.
match_prefix(k, prefix) == StartsWith(k.pointer, prefix)

\* mod.rs:338-344: the column of an entry seen by as_array.
as_array_column(key, k, unique_keys) ==
    Column(key, k.depth, k.value_type, 1, Len(unique_keys))

\* mod.rs:345-349: count the column, or add it.
as_array_count(unique_keys, column) ==
    LET at == FindColumn(unique_keys, column.name)
    IN IF at # 0
       THEN [unique_keys EXCEPT ![at].seen_count = unique_keys[at].seen_count + 1]
       ELSE Append(unique_keys, column)

\* mod.rs:315-369: the inner loop for array element i.  st holds json, j,
\* unique_keys, flat_json_values and is_first_entry.
RECURSIVE as_array_row(_, _, _)
as_array_row(st, i, prev) ==
    IF st.j >= 0 /\ st.json # <<>> THEN
        LET k == st.json[st.j + 1]
            prefix == RowPrefix(prev, i)
            prefix_len == Len(prefix)
        IN IF match_prefix(k, prefix) THEN
               LET key == SubSeq(k.pointer, prefix_len + 1, Len(k.pointer))
                   keys2 == IF k.pointer # <<>>
                            THEN as_array_count(st.unique_keys,
                                     as_array_column(key, k, st.unique_keys))
                            ELSE st.unique_keys
                   flat1 == IF st.is_first_entry
                            THEN Append(st.flat_json_values,
                                     Entry(SubSeq(k.pointer, 1, prefix_len) \o <<"/", "#">>,
                                           "Number", k.depth, i, Some(to_string(i))))
                            ELSE st.flat_json_values
                   popped == st.json[Len(st.json)]
                   st2 == [json |-> SubSeq(st.json, 1, Len(st.json) - 1),
                           j |-> st.j,
                           unique_keys |-> keys2,
                           flat_json_values |-> Append(flat1, [popped EXCEPT !.index = i]),
                           is_first_entry |-> FALSE]
               IN IF st.j = 0 THEN st2
                  ELSE as_array_row([st2 EXCEPT !.j = st.j - 1], i, prev)
           ELSE st
    ELSE st

RECURSIVE as_array_rows(_, _, _, _, _, _)

\* mod.rs:370: the row of element n - 1 is pushed and the outer loop goes
\* on; st is the state the inner loop ended in.
as_array_push(st, n, res, prev) ==
    as_array_rows(n - 1, st.json, st.j, st.unique_keys,
                  Append(res, [entries |-> st.flat_json_values, index |-> n - 1]),
                  prev)

\* mod.rs:311-371: the outer loop, i from n - 1 down to 0.
as_array_rows(n, json, j, unique_keys, res, prev) ==
    IF n = 0 THEN [rows |-> res, columns |-> unique_keys]
    ELSE as_array_push(as_array_row([json |-> json, j |-> j,
                                     unique_keys |-> unique_keys,
                                     flat_json_values |-> <<>>,
                                     is_first_entry |-> TRUE], n - 1, prev),
                       n, res, prev)

\* Mutant of RootNotArray: the root's type is not looked at.
RootNotArray_unchecked(prev) == FALSE

\* mod.rs:304: the root is not an array.
RootNotArray(prev) == prev.root_value_type # "Array"

\* mod.rs:372-374: the rows are reversed and the columns sorted.
Finished(r) == Ok([rows |-> reverse(r.rows), columns |-> sort(r.columns)])

\* JSONParser::as_array.  overflow_checks: the build panics on integer
\* overflow (debug) instead of wrapping (release).
as_array(prev, overflow_checks) ==
    IF RootNotArray(prev) THEN Err("Parsed json root is not an array")
    ELSE IF Len(prev.json) - 1 < 0 /\ overflow_checks
    THEN Panic("attempt to subtract with overflow")
    ELSE Finished(as_array_rows(prev.root_array_len, prev.json,
                                (Len(prev.json) - 1) % UsizeWrap,
                                <<>>, <<>>, prev))

\* ------------------------------------------------------------ change_depth_array
\* ParseResult::clone_except_json
clone_except_json(self) ==
    ParseResult(<<>>, self.max_json_depth, self.parsing_max_depth, "None",
                self.started_parsing_at, self.parsing_prefix,
                self.root_array_len)

\* mod.rs:238-251: the column of the entry k, whose pointer is `key` past
\* the row's prefix, is counted, or added unless its name holds a "#".
change_depth_array_count(unique_keys, key, k, at) ==
    IF at # 0
    THEN [unique_keys EXCEPT ![at].seen_count = unique_keys[at].seen_count + 1]
    ELSE IF ~Contains(key, "#")
    THEN Append(unique_keys, Column(key, k.depth, k.value_type, 0, Len(unique_keys)))
    ELSE unique_keys

\* mod.rs:219-254: the loop over the entries of row i from entry n on.
\* st holds vec and unique_keys.
RECURSIVE change_depth_array_row(_, _, _, _)
change_depth_array_row(st, n, i, prev) ==
    IF n > Len(st.vec) THEN st
    ELSE LET k == st.vec[n]
             prefix_len == Len(RowPrefix(prev, i))
             key == SubSeq(k.pointer, prefix_len + 1, Len(k.pointer))
         IN IF k.pointer # <<>> /\ Len(k.pointer) <= prefix_len
            THEN change_depth_array_row(st, n + 1, i, prev)
            ELSE change_depth_array_row(
                     [vec |-> [st.vec EXCEPT ![n].index = i],
                      unique_keys |->
                          IF k.pointer = <<>> THEN st.unique_keys
                          ELSE change_depth_array_count(st.unique_keys, key, k,
                                   FindColumn(st.unique_keys, key))],
                     n + 1, i, prev)

RECURSIVE change_depth_array_rows(_, _, _, _, _)

\* mod.rs:255: row i is pushed and the loop over the rows goes on; st is
\* the state the loop over its entries ended in.
change_depth_array_push(st, i, json_array, new_json_array, prev, depth) ==
    change_depth_array_rows(SubSeq(json_array, 1, Len(json_array) - 1),
                            st.unique_keys,
                            Append(new_json_array, [entries |-> st.vec, index |-> i]),
                            prev, depth)

\* mod.rs:216-255: row i after change_depth returned `result` for it.
change_depth_array_changed(result, json_array, unique_keys, new_json_array, prev, depth) ==
    IF result.kind # "Ok" THEN result
    ELSE change_depth_array_push(
             change_depth_array_row([vec |-> result.val.json,
                                     unique_keys |-> unique_keys],
                                    1, Len(json_array) - 1, prev),
             Len(json_array) - 1, json_array, new_json_array, prev, depth)

\* mod.rs:212-256: the loop over the rows, i from Len(json_array) - 1 down
\* to 0; new_json_array is built back to front.
change_depth_array_rows(json_array, unique_keys, new_json_array, prev, depth) ==
    IF json_array = <<>>
    THEN Ok([rows |-> new_json_array, columns |-> unique_keys])
    ELSE change_depth_array_changed(
             change_depth([clone_except_json(prev) EXCEPT
                              !.json = json_array[Len(json_array)].entries],
                          [DefaultOptions EXCEPT !.parse_array = FALSE,
                                                 !.max_depth = depth]),
             json_array, unique_keys, new_json_array, prev, depth)

\* mod.rs:257-260: the rows are reversed and the columns sorted.
change_depth_array_finished(r) ==
    IF r.kind # "Ok" THEN r ELSE Finished(r.val)

\* JSONParser::change_depth_array
change_depth_array(prev, json_array, depth) ==
    change_depth_array_finished(
        change_depth_array_rows(json_array, <<>>, <<>>, prev, depth))

\* ------------------------------------------------------------ ArrayTable
\* ArrayTable::visible_columns
visible_columns(all_columns, depth) ==
    SelectSeq(all_columns,
              LAMBDA column : column.depth = depth
                              \/ (column.depth < depth /\ column.value_type # "Object"))

\* ArrayTable::selected_columns
selected_columns(all_columns, depth) == visible_columns(all_columns, depth)

\* Vec::retain(|c| !self.column_pinned.contains(c)): Column's eq compares
\* the names.
retain_not_pinned(columns, column_pinned) ==
    SelectSeq(columns,
              LAMBDA c : \A n \in 1..Len(column_pinned) : column_pinned[n].name # c.name)

\* ArrayTable::new (the fields the core operations read or write).
ArrayTable_new(parse_result, nodes, all_columns, depth, parent_pointer) ==
    [all_columns |-> all_columns,
     column_selected |-> selected_columns(all_columns, depth),
     column_pinned |-> <<Column_new(<<"/", "#">>, "Number")>>,
     max_depth |-> depth,
     last_parsed_max_depth |->
         IF parse_result = None THEN depth ELSE parse_result[1].parsing_max_depth,
     parse_result |-> parse_result,
     nodes |-> nodes,
     filtered_nodes |-> <<>>,
     columns_filter |-> <<>>,
     parent_pointer |-> parent_pointer]

\* Mutant of update_columns_only: the depth shown becomes the depth parsed.
update_columns_only_lowering(self, depth) ==
    LET column_selected ==
            retain_not_pinned(selected_columns(self.all_columns, depth),
                              self.column_pinned)
    IN [self EXCEPT !.last_parsed_max_depth = depth,
                    !.column_selected =
                        IF column_selected = <<>>
                        THEN <<Column(<<>>, depth, "None", 0, 0)>>
                        ELSE column_selected]

\* array_table.rs:250-261: the depth is within what was parsed.
update_columns_only(self, depth) ==
    LET column_selected ==
            retain_not_pinned(selected_columns(self.all_columns, depth),
                              self.column_pinned)
    IN [self EXCEPT !.column_selected =
            IF column_selected = <<>>
            THEN <<Column(<<>>, depth, "None", 0, 0)>>
            ELSE column_selected]

\* array_table.rs:266-272: the table after change_depth_array returned r.
update_after_change(self, depth, r) ==
    [self EXCEPT !.all_columns = r.columns,
                 !.column_selected =
                     retain_not_pinned(selected_columns(r.columns, depth),
                                       self.column_pinned),
                 !.nodes = r.rows,
                 !.last_parsed_max_depth = depth]

\* array_table.rs:265-273: change_depth_array returned r for the rows
\* mem::take took out of self; unwrap() panics on its error.  The
\* change_depth_array of mod.rs returns no new max_json_depth: the stored
\* one is kept and returned.
update_unwrapped(r, taken, depth) ==
    IF r.kind # "Ok"
    THEN [table |-> taken, out |-> Panic("called unwrap on an Err value")]
    ELSE [table |-> update_after_change(taken, depth, r.val),
          out |-> Ok(Some(taken.parse_result[1].max_json_depth))]

\* ArrayTable::update_selected_columns: the table and what the call
\* returned.
update_selected_columns(self, depth) ==
    IF depth <= self.last_parsed_max_depth
    THEN [table |-> update_columns_only(self, depth), out |-> Ok(None)]
    ELSE update_unwrapped(
             change_depth_array(self.parse_result[1], self.nodes, depth),
             [self EXCEPT !.nodes = <<>>], depth)

\* ArrayTable::update_max_depth
update_max_depth(self, depth) ==
    update_selected_columns([self EXCEPT !.max_depth = depth], depth)

\* JsonArrayEntries::find_node_at: the first entry of the row with the
\* pointer.
find_node_at(row, pointer) ==
    LET S == {n \in 1..Len(row.entries) : row.entries[n].pointer = pointer}
    IN IF S = {} THEN None
       ELSE Some(row.entries[CHOOSE n \in S : \A m \in S : n <= m])

\* mod.rs:381: the pointer looked for in the row.
pointer_to_find(row, prefix, pointer) ==
    prefix \o <<"/">> \o to_string(row.index) \o pointer

\* Mutant of should_add_row: a found entry need not have a value.
should_add_row_if_found(row, prefix, non_null_columns) ==
    \A n \in 1..Len(non_null_columns) :
        find_node_at(row, pointer_to_find(row, prefix, non_null_columns[n])) # None

\* mod.rs:380-392: every listed pointer is found in the row with a value.
should_add_row(row, prefix, non_null_columns) ==
    \A n \in 1..Len(non_null_columns) :
        /\ find_node_at(row, pointer_to_find(row, prefix, non_null_columns[n])) # None
        /\ find_node_at(row, pointer_to_find(row, prefix, non_null_columns[n]))[1].value # None

\* JSONParser::filter_non_null_column
filter_non_null_column(previous_parse_result, prefix, non_null_columns) ==
    SelectSeq(previous_parse_result,
              LAMBDA row : should_add_row(row, prefix, non_null_columns))

\* The row has one of the values at the column.
has_value_in(row, prefix, column, values) ==
    /\ find_node_at(row, pointer_to_find(row, prefix, column)) # None
    /\ \E n \in 1..Len(values) :
           find_node_at(row, pointer_to_find(row, prefix, column))[1].value
               = Some(values[n])

\* parser::filter_columns: the rows that have, at every column of the
\* filter, one of the column's values.  columns_filter is a function from
\* column names to value lists.
filter_columns(rows, prefix, columns_filter) ==
    SelectSeq(rows,
              LAMBDA row : \A column \in DOMAIN columns_filter :
                  has_value_in(row, prefix, column, columns_filter[column]))

\* Vec::contains
contains(v, x) == \E n \in 1..Len(v) : v[n] = x

\* HashMap::insert
insert(map, key, value) ==
    [k \in DOMAIN map \cup {key} |-> IF k = key THEN value ELSE map[k]]

\* HashMap::remove
remove(map, key) == [k \in DOMAIN map \ {key} |-> map[k]]

\* array_table.rs:596-608: the filter after the value's box is clicked.
toggled(columns_filter, column, value) ==
    IF column \in DOMAIN columns_filter
    THEN IF contains(columns_filter[column], value)
         THEN IF SelectSeq(columns_filter[column], LAMBDA v : v # value) = <<>>
              THEN remove(columns_filter, column)
              ELSE insert(columns_filter, column,
                          SelectSeq(columns_filter[column], LAMBDA v : v # value))
         ELSE insert(columns_filter, column, Append(columns_filter[column], value))
    ELSE insert(columns_filter, column, <<value>>)

\* array_table.rs:609-613: the filtered rows for the new filter.
refiltered(self, columns_filter) ==
    [self EXCEPT !.columns_filter = columns_filter,
                 !.filtered_nodes =
                     IF DOMAIN columns_filter = {} THEN <<>>
                     ELSE filter_columns(self.nodes, self.parent_pointer,
                                         columns_filter)]

\* ArrayTable::on_filter_column_value
on_filter_column_value(self, column, value) ==
    refiltered(self, toggled(self.columns_filter, column, value))

\* ArrayTable::nodes: the rows the table displays.
nodes(self) ==
    IF DOMAIN self.columns_filter = {} THEN self.nodes ELSE self.filtered_nodes

\* array_table.rs:452-454: the pin of the n-th selected column is clicked:
\* the column moves from column_selected to column_pinned.
pin_column(self, n) ==
    [self EXCEPT !.column_selected =
                     SubSeq(self.column_selected, 1, n - 1)
                         \o SubSeq(self.column_selected, n + 1,
                                   Len(self.column_selected)),
                 !.column_pinned = Append(self.column_pinned, self.column_selected[n])]

\* ------------------------------------------------------------ documents
\* The array elements documents are made of.
Elements ==
    { <<"{", "}">>,
      <<"{", "a", ":", "1", "}">>,
      <<"{", "a", ":", "2", ",", "b", ":", "x", "}">>,
      <<"{", "a", ":", "{", "b", ":", "{", "c", ":", "1", "}", "}", "}">>,
      <<"{", "a", ":", "[", "1", "]", ",", "b", ":", "{", "#", ":", "[", "2", "]", "}",
        ",", "d", ":", "n", ",", "c", ":", "2", "}">>,
      <<"{", "a", ":", "{", "b", "1", "}", "}">> }

RECURSIVE Join(_)
Join(elements) ==
    IF elements = <<>> THEN <<>>
    ELSE IF Len(elements) = 1 THEN elements[1]
    ELSE elements[1] \o <<",">> \o Join(Tail(elements))

\* The elements of index 1 and of the last index of a long array.
WideElements == { <<"{", "}">>, <<"{", "a", ":", "1", "}">> }

\* The long arrays: WideRows elements, empty objects but for index 1 and
\* the last index.
WideDocuments ==
    { <<"[">> \o Join([n \in 1..WideRows |->
                          IF n = 2 THEN x
                          ELSE IF n = WideRows THEN y
                          ELSE <<"{", "}">>]) \o <<"]">> :
        x \in WideElements, y \in WideElements }

\* The documents: an object, an array of at most MaxRows objects, or a
\* long array.
Documents ==
    Elements \cup WideDocuments \cup
    { <<"[">> \o Join(es) \o <<"]">> :
        es \in UNION {[1..n -> Elements] : n \in 0..MaxRows} }

Depths == 1..MaxDepth

\* The pointer lists filter_non_null_column is called with.
NonNullColumns ==
    { <<>>,
      << <<"/", "a">>, <<"/", "b">> >>,
      << <<"/", "d">> >> }

\* The columns and the values whose filter boxes are clicked.
FilterColumns == { <<"/", "c">> }
FilterValues == { <<"2">> }

\* ------------------------------------------------------------ state
VARIABLES
    input,            \* the JSON text
    parse_result,     \* Option<ParseResult>: the flat structure the caller holds
    table,            \* Option<ArrayTable>
    call,             \* the last call of a core operation: op, in, depth, out
    panicked          \* the program has panicked

vars == <<input, parse_result, table, call, panicked>>

Call(op, in, depth, out) == [op |-> op, in |-> in, depth |-> depth, out |-> out]

Init ==
    /\ input \in Documents
    /\ parse_result = None
    /\ table = None
    /\ call = Call("none", None, 0, Ok(None))
    /\ panicked = FALSE

\* The caller keeps the flat structure of a call that returned one.
Kept(r) == IF r.kind = "Ok" THEN Some(r.val) ELSE None

Parsed(d, r) ==
    /\ call' = Call("parse", None, d, r)
    /\ parse_result' = Kept(r)

\* JSONParser::new(input).parse(ParseOptions::default().max_depth(d))
Parse(d) ==
    /\ ~panicked /\ call.op = "none"
    /\ Parsed(d, JSONParser_parse(input, [DefaultOptions EXCEPT !.max_depth = d]))
    /\ UNCHANGED <<input, table, panicked>>

DepthChanged(d, r) ==
    /\ call' = Call("change_depth", parse_result[1], d, r)
    /\ parse_result' = Kept(r)
    /\ panicked' = (r.kind = "Panic")

\* JSONParser::change_depth(parse_result, ParseOptions::default().max_depth(d)):
\* the flat structure is moved into the call.
ChangeDepth(d) ==
    /\ ~panicked /\ parse_result # None
    /\ DepthChanged(d, change_depth(parse_result[1],
                                    [DefaultOptions EXCEPT !.max_depth = d]))
    /\ UNCHANGED <<input, table>>

Projected(prev, r) ==
    /\ call' = Call("as_array", prev, 0, r)
    /\ table' = IF r.kind = "Ok"
                THEN Some(ArrayTable_new(Some(prev), r.val.rows, r.val.columns,
                                         prev.parsing_max_depth, <<>>))
                ELSE None
    /\ panicked' = (r.kind = "Panic")

\* JSONParser::as_array(parse_result), and the table made of its rows and
\* columns with ArrayTable::new, at the depth the structure was parsed to.
\* overflow_checks: whether the build panics on integer overflow.
AsArray(overflow_checks) ==
    /\ ~panicked /\ parse_result # None
    /\ Projected(parse_result[1], as_array(parse_result[1], overflow_checks))
    /\ parse_result' = None
    /\ UNCHANGED input

Updated(d, r) ==
    /\ call' = Call("update_max_depth", table[1], d, r.out)
    /\ table' = Some(r.table)
    /\ panicked' = (r.out.kind = "Panic")

\* ArrayTable::update_max_depth(d)
UpdateMaxDepth(d) ==
    /\ ~panicked /\ table # None
    /\ Updated(d, update_max_depth(table[1], d))
    /\ UNCHANGED <<input, parse_result>>

Toggled(t) ==
    /\ call' = Call("on_filter_column_value", None, 0, Ok(None))
    /\ table' = Some(t)

\* ArrayTable::on_filter_column_value((column, value))
OnFilterColumnValue(column, value) ==
    /\ ~panicked /\ table # None
    /\ Toggled(on_filter_column_value(table[1], column, value))
    /\ UNCHANGED <<input, parse_result, panicked>>

Next ==
    \/ \E d \in Depths : Parse(d)
    \/ \E d \in Depths : ChangeDepth(d)
    \/ \E overflow_checks \in BOOLEAN : AsArray(overflow_checks)
    \/ \E d \in Depths : UpdateMaxDepth(d)
    \/ \E column \in FilterColumns, value \in FilterValues :
           OnFilterColumnValue(column, value)

Spec == Init /\ [][Next]_vars

\* ------------------------------------------------------------ flat structures
\* The structure with the value of entry n taken out (n = 0: none).
Cleared(S, n) == IF n = 0 THEN S ELSE [S EXCEPT !.json[n].value = None]

\* The structures a caller makes of a parse result r: ParseResult and
\* PointerKey have public fields, so an entry may be without value and
\* parsing_max_depth may be any depth.
Given(r) ==
    IF r.kind # "Ok" THEN {}
    ELSE {[Cleared(r.val, n) EXCEPT !.parsing_max_depth = p] :
              n \in 0..Len(r.val.json), p \in Depths}

\* The structures made of the parses of the text.
Structures(t) ==
    UNION {Given(JSONParser_parse(t, [DefaultOptions EXCEPT !.max_depth = d])) :
               d \in Depths}

StructInit ==
    /\ input \in Elements
    /\ parse_result \in {Some(S) : S \in Structures(input)}
    /\ table = None
    /\ call = Call("none", None, 0, Ok(None))
    /\ panicked = FALSE

StructNext == \E d \in Depths : ChangeDepth(d)

\* JSONParser::change_depth on the structures a caller can make.
StructSpec == StructInit /\ [][StructNext]_vars

\* ------------------------------------------------------------ row collections
Filtered(rows, prefix, columns, res) ==
    call' = Call("filter_non_null_column",
                 [rows |-> rows, prefix |-> prefix, columns |-> columns],
                 0, Ok(res))

\* JSONParser::filter_non_null_column(&nodes, &parent_pointer, &columns)
\* on the rows of the table.
FilterNonNull(columns) ==
    /\ ~panicked /\ table # None
    /\ Filtered(table[1].nodes, table[1].parent_pointer, columns,
                filter_non_null_column(table[1].nodes, table[1].parent_pointer,
                                       columns))
    /\ UNCHANGED <<input, parse_result, table, panicked>>

ArrayDepthChanged(prev, rows, d, r) ==
    /\ call' = Call("change_depth_array", [prev |-> prev, rows |-> rows], d, r)
    /\ panicked' = (r.kind = "Panic")

\* JSONParser::change_depth_array(parse_result, rows, d) on the rows
\* filter_non_null_column has just returned.
ChangeDepthArray(d) ==
    /\ ~panicked /\ call.op = "filter_non_null_column"
    /\ ArrayDepthChanged(table[1].parse_result[1], call.out.val, d,
                         change_depth_array(table[1].parse_result[1],
                                            call.out.val, d))
    /\ UNCHANGED <<input, parse_result, table>>

RowsNext ==
    \/ \E d \in Depths : Parse(d)
    \/ \E overflow_checks \in BOOLEAN : AsArray(overflow_checks)
    \/ \E columns \in NonNullColumns : FilterNonNull(columns)
    \/ \E d \in Depths : ChangeDepthArray(d)

\* The calls of the functions on row collections, after a parse and a
\* projection.
RowsSpec == Init /\ [][RowsNext]_vars

\* ------------------------------------------------------------ claims
\* The last call was change_depth with a larger depth.
ExpandCall ==
    call.op = "change_depth" /\ call.depth > call.in.parsing_max_depth

\* The positions in S of the entries of type vt at depth
\* S.parsing_max_depth that hold a raw value.
Boundary(S, vt) ==
    {n \in 1..Len(S.json) :
        /\ S.json[n].value_type = vt
        /\ S.json[n].depth = S.parsing_max_depth
        /\ S.json[n].value # None}

\* The raw value of entry k parsed again to depth d, with k's pointer as
\* prefix and k's members one level below k.
Reparsed(k, d) ==
    Parser_parse(k.value[1],
                 [DefaultOptions EXCEPT !.max_depth = d, !.prefix = Some(k.pointer)],
                 k.depth + 1)

\* out holds k at position q, followed immediately by children.
SplicedAt(out, q, k, children) ==
    /\ q + Len(children) <= Len(out)
    /\ out[q] = k
    /\ SubSeq(out, q + 1, q + Len(children)) = children

\* out holds k at position q, and no entry below k follows it.
OpaqueAt(out, q, k) ==
    /\ out[q] = k
    /\ q < Len(out) => ~StartsWith(out[q + 1].pointer, k.pointer \o <<"/">>)

\* C1 as stated: change_depth to a larger depth expands every container,
\* Array as well as Object, at depth parsing_max_depth: the result holds
\* the entry followed immediately by the entries of its re-parsed raw value.
C1_EveryContainerExpanded ==
    (ExpandCall /\ call.out.kind = "Ok") =>
        \A n \in Boundary(call.in, "Object") \cup Boundary(call.in, "Array") :
            \E q \in 1..Len(call.out.val.json) :
                SplicedAt(call.out.val.json, q, call.in.json[n],
                          Reparsed(call.in.json[n], call.depth).val.json)

\* C1 as amended: change_depth to a larger depth succeeds exactly when the
\* raw value of every Object entry at depth parsing_max_depth parses; the
\* result then holds each such entry followed immediately by the entries
\* of its re-parsed raw value, and holds each Array entry at that depth
\* unexpanded.
C1_BoundaryObjectsExpanded ==
    ExpandCall =>
        /\ call.out.kind = "Ok" <=>
               \A n \in Boundary(call.in, "Object") :
                   Reparsed(call.in.json[n], call.depth).kind = "Ok"
        /\ call.out.kind = "Ok" =>
               /\ \A n \in Boundary(call.in, "Object") :
                      \E q \in 1..Len(call.out.val.json) :
                          SplicedAt(call.out.val.json, q, call.in.json[n],
                                    Reparsed(call.in.json[n], call.depth).val.json)
               /\ \A n \in Boundary(call.in, "Array") :
                      \E q \in 1..Len(call.out.val.json) :
                          OpaqueAt(call.out.val.json, q, call.in.json[n])

\* An expansion with an Object entry at the boundary that has children,
\* and an Array entry at the boundary.
C1_Witness ==
    /\ ExpandCall /\ call.out.kind = "Ok"
    /\ \E n \in Boundary(call.in, "Object") :
           Reparsed(call.in.json[n], call.depth).val.json # <<>>
    /\ Boundary(call.in, "Array") # {}

\* C2 as stated: change_depth to a smaller depth returns an error value
\* and does not panic.
C2_CollapseReturnsError ==
    (call.op = "change_depth" /\ call.depth < call.in.parsing_max_depth) =>
        (call.out.kind = "Err" /\ ~panicked)

\* C3: change_depth to the depth the structure was parsed to returns the
\* structure itself, entries and metadata.
C3_SameDepthUnchanged ==
    (call.op = "change_depth" /\ call.depth = call.in.parsing_max_depth) =>
        (call.out = Ok(call.in) /\ parse_result = Some(call.in))

\* change_depth at the same depth, of a structure with an Object at the
\* boundary.
C3_Witness ==
    /\ call.op = "change_depth" /\ call.depth = call.in.parsing_max_depth
    /\ Boundary(call.in, "Object") # {}

\* C4 as stated: when update_max_depth fails, the table's rows, columns
\* and parsed depth are what they were before the call.
C4_FailureLeavesTable ==
    (call.op = "update_max_depth" /\ call.out.kind # "Ok") =>
        /\ table[1].nodes = call.in.nodes
        /\ table[1].all_columns = call.in.all_columns
        /\ table[1].column_selected = call.in.column_selected
        /\ table[1].last_parsed_max_depth = call.in.last_parsed_max_depth

\* C5: as_array of a structure whose root is not an array returns the
\* root-not-array error, and no table is made.
C5_RootNotArrayFails ==
    (call.op = "as_array" /\ call.in.root_value_type # "Array") =>
        (call.out = Err("Parsed json root is not an array") /\ table = None)

\* as_array of a structure with entries whose root is an object.
C5_Witness ==
    /\ call.op = "as_array" /\ call.in.root_value_type = "Object"
    /\ call.in.json # <<>>

\* The last call was as_array and it returned rows and columns.
Projection == call.op = "as_array" /\ call.out.kind = "Ok"

\* C6 as stated: as_array of a structure whose root is an array returns
\* root_array_len rows, the k-th with index k.
C6_OneRowPerElement ==
    (call.op = "as_array" /\ call.in.root_value_type = "Array") =>
        /\ call.out.kind = "Ok"
        /\ Len(call.out.val.rows) = call.in.root_array_len
        /\ \A k \in 1..Len(call.out.val.rows) : call.out.val.rows[k].index = k - 1

\* The entries of the row that are its index entry: pointer
\* "<row prefix>/#", type Number, the index as text.
IndexEntries(row, prev) ==
    {n \in 1..Len(row.entries) :
        /\ row.entries[n].pointer = RowPrefix(prev, row.index) \o <<"/", "#">>
        /\ row.entries[n].value_type = "Number"
        /\ row.entries[n].value = Some(to_string(row.index))}

\* C7 as stated: every row as_array returns holds exactly one index entry.
C7_IndexEntryInEveryRow ==
    Projection =>
        \A k \in 1..Len(call.out.val.rows) :
            Cardinality(IndexEntries(call.out.val.rows[k], call.in)) = 1

\* The rows that hold an entry at the relative pointer `name`.
RowsWith(rows, name, prev) ==
    {k \in 1..Len(rows) :
        \E n \in 1..Len(rows[k].entries) :
            rows[k].entries[n].pointer = RowPrefix(prev, rows[k].index) \o name}

\* The document of the specification's example: [{"a":1},{"a":2,"b":"x"}]
ExampleRows ==
    <<"[", "{", "a", ":", "1", "}", ",",
           "{", "a", ":", "2", ",", "b", ":", "x", "}", "]">>

\* C8: every column as_array returns has for seen_count the number of rows
\* that hold its relative pointer; for the example document the columns are
\* /a (seen 2) then /b (seen 1), there are 2 rows, row 0 has no /b and the
\* /b of row 1 is x.
C8_SeenCountIsRowCount ==
    Projection =>
        /\ \A c \in 1..Len(call.out.val.columns) :
               call.out.val.columns[c].seen_count =
                   Cardinality(RowsWith(call.out.val.rows,
                                        call.out.val.columns[c].name, call.in))
        /\ input = ExampleRows =>
               /\ Len(call.out.val.rows) = 2
               /\ [c \in 1..Len(call.out.val.columns) |->
                      <<call.out.val.columns[c].name,
                        call.out.val.columns[c].seen_count>>]
                  = << <<<<"/", "a">>, 2>>, <<<<"/", "b">>, 1>> >>
               /\ RowsWith(call.out.val.rows, <<"/", "b">>, call.in) = {2}
               /\ \E n \in 1..Len(call.out.val.rows[2].entries) :
                      /\ call.out.val.rows[2].entries[n].pointer = <<"/", "1", "/", "b">>
                      /\ call.out.val.rows[2].entries[n].value = Some(<<"x">>)

\* as_array of the example document.
C8_Witness == Projection /\ input = ExampleRows

\* The column schemas the program holds: the one as_array returned, and
\* the table's.
Schemas ==
    (IF Projection THEN {call.out.val.columns} ELSE {})
    \cup (IF table # None THEN {table[1].all_columns} ELSE {})

\* C9: in a sorted schema no column comes after one with a smaller
\* seen_count.
C9_RankedByCount ==
    \A cs \in Schemas :
        \A p, q \in 1..Len(cs) :
            p < q => cs[p].seen_count >= cs[q].seen_count

\* A column found later than another one and seen more often comes first.
C9_Witness ==
    /\ Projection
    /\ \E p, q \in 1..Len(call.out.val.columns) :
           /\ p < q
           /\ call.out.val.columns[p].seen_count > call.out.val.columns[q].seen_count
           /\ call.out.val.columns[p].order > call.out.val.columns[q].order

Deepened ==
    /\ call.op = "update_max_depth"
    /\ call.depth > call.in.last_parsed_max_depth
    /\ call.out.kind = "Ok"

\* C11 as stated: the schema change_depth_array returns is the one the
\* projector infers from the rows it returns: every column's seen_count is
\* the number of those rows that hold its relative pointer.
C11_SchemaOfResultRows ==
    Deepened =>
        \A c \in 1..Len(table[1].all_columns) :
            table[1].all_columns[c].seen_count =
                Cardinality(RowsWith(table[1].nodes, table[1].all_columns[c].name,
                                     table[1].parse_result[1]))

\* C12 as stated: change_depth_array returns as many rows as it is given,
\* the k-th with the index of the k-th row given, whatever the row
\* collection, a filtered one included.
C12_RowIndexPreserved ==
    (call.op = "change_depth_array" /\ call.out.kind = "Ok") =>
        /\ Len(call.out.val.rows) = Len(call.in.rows)
        /\ \A k \in 1..Len(call.in.rows) :
               call.out.val.rows[k].index = call.in.rows[k].index

\* C13 as stated: no column of a schema returned by as_array or by
\* change_depth_array has a name that holds the marker "#".
C13_NoMarkerInColumnNames ==
    \A cs \in Schemas :
        \A c \in 1..Len(cs) : ~Contains(cs[c].name, "#")

\* The row holds, for every pointer of the list, an entry at
\* prefix/index/pointer that has a value.
HoldsAll(row, prefix, columns) ==
    \A c \in 1..Len(columns) :
        \E n \in 1..Len(row.entries) :
            /\ row.entries[n].pointer
                   = prefix \o <<"/">> \o to_string(row.index) \o columns[c]
            /\ row.entries[n].value # None

\* The positions of the rows that hold all the pointers of the list.
Holding(rows, prefix, columns) ==
    {n \in 1..Len(rows) : HoldsAll(rows[n], prefix, columns)}

\* The k-th smallest element of a set of numbers.
Nth(S, k) == CHOOSE n \in S : Cardinality({m \in S : m < n}) = k - 1

\* C14: filter_non_null_column returns, in the order given, exactly the
\* rows that hold an entry with a value at prefix/index/p for every listed
\* pointer p; with no pointer listed it returns all the rows; the rows
\* given are not modified.
C14_RowsHoldingAllPointers ==
    call.op = "filter_non_null_column" =>
        LET S == Holding(call.in.rows, call.in.prefix, call.in.columns)
        IN /\ Len(call.out.val) = Cardinality(S)
           /\ \A k \in 1..Len(call.out.val) :
                  call.out.val[k] = call.in.rows[Nth(S, k)]
           /\ call.in.columns = <<>> => call.out.val = call.in.rows
           /\ table[1].nodes = call.in.rows

\* A call with two pointers that keeps a row and drops a row, and a call
\* that drops a row whose entry at the pointer has no value.
C14_Witness ==
    /\ call.op = "filter_non_null_column"
    /\ \/ /\ Len(call.in.columns) = 2
          /\ Len(call.out.val) > 0
          /\ Len(call.out.val) < Len(call.in.rows)
          /\ call.out.val[1].index > 0
       \/ /\ call.in.columns = << <<"/", "d">> >>
          /\ call.out.val = <<>>
          /\ \E k \in 1..Len(call.in.rows) :
                 \E n \in 1..Len(call.in.rows[k].entries) :
                     call.in.rows[k].entries[n].pointer
                         = <<"/">> \o to_string(call.in.rows[k].index) \o <<"/", "d">>

\* The columns and values of the filter boxes.
BoxColumns == { <<"/", "a">>, <<"/", "c">> }
BoxValues == { <<"1">>, <<"2">>, <<"x">> }

\* The two filters hold the same values for the same columns.
SameFilters(f, g) ==
    /\ DOMAIN f = DOMAIN g
    /\ \A c \in DOMAIN f :
           {f[c][n] : n \in 1..Len(f[c])} = {g[c][n] : n \in 1..Len(g[c])}

\* C15 as stated: in every table state, clicking the same filter box twice
\* gives back the rows displayed before, in the same order, and the
\* filters active before; the base rows are the same after each click.
C15_ToggleTwiceRestores ==
    (table # None /\ ~panicked) =>
        \A column \in BoxColumns, value \in BoxValues :
            LET once == on_filter_column_value(table[1], column, value)
                twice == on_filter_column_value(once, column, value)
            IN /\ nodes(twice) = nodes(table[1])
               /\ SameFilters(twice.columns_filter, table[1].columns_filter)
               /\ once.nodes = table[1].nodes
               /\ twice.nodes = table[1].nodes

\* No two entries of the sequence have the same pointer.
UniquePointers(entries) ==
    \A m, n \in 1..Len(entries) :
        entries[m].pointer = entries[n].pointer => m = n

\* C16 as stated: after any sequence of depth changes no flat structure
\* and no row of the table holds two entries with the same pointer.
C16_PointersStayUnique ==
    /\ parse_result # None => UniquePointers(parse_result[1].json)
    /\ (table # None /\ ~panicked) =>
           \A k \in 1..Len(table[1].nodes) :
               UniquePointers(table[1].nodes[k].entries)

\* The entry is a container.
IsContainer(k) == k.value_type \in {"Object", "Array"}

\* The entries of the structure that are not containers at depth
\* parsing_max_depth, in their order.
Frame(S) ==
    SelectSeq(S.json, LAMBDA k : ~(IsContainer(k) /\ k.depth = S.parsing_max_depth))

\* a is b with some elements left out.
RECURSIVE IsSubseq(_, _)
IsSubseq(a, b) ==
    IF a = <<>> THEN TRUE
    ELSE IF b = <<>> THEN FALSE
    ELSE IF Head(a) = Head(b) THEN IsSubseq(Tail(a), Tail(b))
    ELSE IsSubseq(a, Tail(b))

\* The positions of the containers of S deeper than parsing_max_depth and
\* not deeper than d that hold a raw value.
PastBoundary(S, d) ==
    {n \in 1..Len(S.json) :
        /\ IsContainer(S.json[n])
        /\ S.json[n].depth > S.parsing_max_depth
        /\ S.json[n].depth <= d
        /\ S.json[n].value # None}

\* C17: when change_depth expands, the entries that are not containers at
\* depth parsing_max_depth are in the result unchanged and in the same
\* order, and a container deeper than parsing_max_depth that the new depth
\* reaches is followed in the result by an entry of the input, not by
\* children of its own.
C17_FrameOfExpansion ==
    (ExpandCall /\ call.out.kind = "Ok") =>
        /\ IsSubseq(Frame(call.in), call.out.val.json)
        /\ \A n \in PastBoundary(call.in, call.depth) :
               \E q \in 1..Len(call.out.val.json) :
                   /\ call.out.val.json[q] = call.in.json[n]
                   /\ q < Len(call.out.val.json) =>
                          \E m \in n + 1..Len(call.in.json) :
                              call.out.val.json[q + 1] = call.in.json[m]

\* An expansion of a structure with a scalar, an Object at the boundary
\* that has children, and a deeper Object that the new depth reaches.
C17_Witness ==
    /\ ExpandCall /\ call.out.kind = "Ok"
    /\ \E n \in 1..Len(call.in.json) : ~IsContainer(call.in.json[n])
    /\ \E n \in Boundary(call.in, "Object") :
           Reparsed(call.in.json[n], call.depth).val.json # <<>>
    /\ \E n \in PastBoundary(call.in, call.depth) :
           call.in.json[n].value_type = "Object"

\* C20 as stated: when change_depth expands, every entry of the input is in
\* the result with its pointer and value, an Object at the boundary
\* without value included, and the result has at least as many entries.
C20_NoEntryLost ==
    (ExpandCall /\ call.out.kind = "Ok") =>
        /\ \A n \in 1..Len(call.in.json) :
               \E q \in 1..Len(call.out.val.json) :
                   /\ call.out.val.json[q].pointer = call.in.json[n].pointer
                   /\ call.out.val.json[q].value = call.in.json[n].value
        /\ Len(call.out.val.json) >= Len(call.in.json)

\* The document of the specification's example: {"a":{"b":{"c":1}}}
ExampleNested ==
    <<"{", "a", ":", "{", "b", ":", "{", "c", ":", "1", "}", "}", "}">>

\* C18: after change_depth to a larger depth d the result's
\* parsing_max_depth is d, no entry is deeper than d, the first child of an
\* expanded entry is one level below it, and a container at depth d holds
\* its raw text and has no entry below it; {"a":{"b":{"c":1}}} parsed at
\* depth 1 and changed to depth 2 gives /a and /a/b with the raw text
\* {"c":1}, and no /a/b/c.
C18_ChildrenDownToNewDepth ==
    (ExpandCall /\ call.out.kind = "Ok") =>
        LET out == call.out.val.json
        IN /\ call.out.val.parsing_max_depth = call.depth
           /\ \A q \in 1..Len(out) :
                  /\ out[q].depth <= call.depth
                  /\ (IsContainer(out[q]) /\ out[q].depth = call.depth) =>
                         /\ out[q].value # None
                         /\ \A r \in 1..Len(out) :
                                ~StartsWith(out[r].pointer, out[q].pointer \o <<"/">>)
                  /\ (/\ q < Len(out)
                      /\ \E n \in Boundary(call.in, "Object") : call.in.json[n] = out[q]
                      /\ StartsWith(out[q + 1].pointer, out[q].pointer \o <<"/">>)) =>
                         out[q + 1].depth = out[q].depth + 1
           /\ (input = ExampleNested /\ call.in.parsing_max_depth = 1 /\ call.depth = 2) =>
                  /\ [q \in 1..Len(out) |-> out[q].pointer]
                         = << <<"/", "a">>, <<"/", "a", "/", "b">> >>
                  /\ out[2].value = Some(<<"{", "c", ":", "1", "}">>)

\* The example: {"a":{"b":{"c":1}}} parsed at depth 1 is changed to depth 2.
C18_Witness ==
    /\ ExpandCall /\ call.out.kind = "Ok"
    /\ input = ExampleNested
    /\ call.in.parsing_max_depth = 1 /\ call.depth = 2

\* The positions of the entries of S that belong to array element i: the
\* pointer is the element's prefix or goes on with "/" after it.
OfElement(S, i) ==
    {n \in 1..Len(S.json) :
        \/ S.json[n].pointer = RowPrefix(S, i)
        \/ StartsWith(S.json[n].pointer, RowPrefix(S, i) \o <<"/">>)}

\* The positions of the entries of the row that are not its index entry.
Taken(row, S) ==
    {m \in 1..Len(row.entries) :
        row.entries[m].pointer # RowPrefix(S, row.index) \o <<"/", "#">>}

\* C19: as_array gives the row of index i exactly the entries of the
\* structure that belong to element i, each tagged index i, and every
\* entry of the structure is in exactly one row.
C19_RowsPartitionEntries ==
    Projection =>
        /\ \A k \in 1..Len(call.out.val.rows) :
               LET row == call.out.val.rows[k]
               IN /\ {row.entries[m] : m \in Taken(row, call.in)}
                         = {[call.in.json[n] EXCEPT !.index = row.index] :
                                n \in OfElement(call.in, row.index)}
                  /\ Cardinality(Taken(row, call.in))
                         = Cardinality(OfElement(call.in, row.index))
        /\ \A n \in 1..Len(call.in.json) :
               Cardinality({k \in 1..Len(call.out.val.rows) :
                               \E m \in Taken(call.out.val.rows[k], call.in) :
                                   call.out.val.rows[k].entries[m].pointer
                                       = call.in.json[n].pointer}) = 1

\* as_array of an array whose elements of index 1 and 10 both have entries.
C19_Witness ==
    /\ Projection
    /\ Len(call.out.val.rows) > 10
    /\ Taken(call.out.val.rows[2], call.in) # {}
    /\ Taken(call.out.val.rows[11], call.in) # {}

\* C21 as stated: in every table state reached by filter clicks and depth
\* changes, with a filter active the filtered rows are the filter applied
\* to the current base rows, and these are the rows displayed; with no
\* filter active the base rows are displayed.
C21_DisplayedRowsFollowBaseRows ==
    (table # None /\ ~panicked) =>
        IF DOMAIN table[1].columns_filter # {}
        THEN /\ table[1].filtered_nodes
                    = filter_columns(table[1].nodes, table[1].parent_pointer,
                                     table[1].columns_filter)
             /\ nodes(table[1]) = table[1].filtered_nodes
        ELSE nodes(table[1]) = table[1].nodes

\* C22 as stated: as_array of a structure whose root is an array and
\* whose flat structure holds no entry completes, in every build, with
\* root_array_len rows and no column.
C22_EmptyStructureProjects ==
    (call.op = "as_array" /\ call.in.root_value_type = "Array"
                          /\ call.in.json = <<>>) =>
        /\ call.out.kind = "Ok"
        /\ Len(call.out.val.rows) = call.in.root_array_len
        /\ call.out.val.columns = <<>>

\* The columns of the table shown at depth d: those of all_columns at
\* depth d, or above it and not objects, that are not pinned.
Shown(t, d) ==
    SelectSeq(t.all_columns,
              LAMBDA c : /\ c.depth = d \/ (c.depth < d /\ c.value_type # "Object")
                         /\ \A n \in 1..Len(t.column_pinned) :
                                t.column_pinned[n].name # c.name)

\* update_max_depth(d) on the table t gave r without parsing: it returned
\* None, the rows, the columns, the flat structure and the depth parsed
\* are those of t, and the selected columns are the columns shown at d, or
\* one column without a name when there is none.
WithinParsed(t, d, r) ==
    /\ r.out = Ok(None)
    /\ r.table.nodes = t.nodes
    /\ r.table.all_columns = t.all_columns
    /\ r.table.parse_result = t.parse_result
    /\ r.table.last_parsed_max_depth = t.last_parsed_max_depth
    /\ r.table.column_selected # <<>>
    /\ IF Shown(t, d) # <<>>
       THEN r.table.column_selected = Shown(t, d)
       ELSE /\ Len(r.table.column_selected) = 1
            /\ r.table.column_selected[1].name = <<>>
            /\ r.table.column_selected[1].depth = d

\* The table, and the tables it becomes when one of its selected columns
\* is pinned.
PinnedTables(t) ==
    {t} \cup {pin_column(t, n) : n \in 1..Len(t.column_selected)}

\* C23: update_max_depth(d) with d not above the depth parsed returns None
\* and changes nothing but the selected columns, which become the columns
\* shown at d without the pinned ones, or one column without a name; the
\* depth parsed never decreases in a call and no call from the table
\* reaches the collapse branch of change_depth.
C23_WithinParsedRangeNoParsing ==
    /\ (table # None /\ ~panicked) =>
           \A t \in PinnedTables(table[1]) :
               \A d \in 0..t.last_parsed_max_depth :
                   WithinParsed(t, d, update_max_depth(t, d))
    /\ call.op = "update_max_depth" =>
           /\ table[1].last_parsed_max_depth >= call.in.last_parsed_max_depth
           /\ ~(call.out.kind = "Panic" /\ call.out.val = "not yet implemented")
           /\ call.depth <= call.in.last_parsed_max_depth =>
                  WithinParsed(call.in, call.depth,
                               [table |-> table[1], out |-> call.out])

\* The depth shown was lowered on a table that had been expanded before,
\* and an object column is no longer selected.
C23_Witness ==
    /\ call.op = "update_max_depth"
    /\ call.depth < call.in.max_depth
    /\ call.depth <= call.in.last_parsed_max_depth
    /\ call.in.last_parsed_max_depth > call.in.parse_result[1].parsing_max_depth
    /\ call.out = Ok(None)
    /\ table[1].nodes # <<>>
    /\ Len(table[1].column_selected) < Len(table[1].all_columns)

====
